---- MODULE Spec2Model ----
(***************************************************************************)
(* tap-sailthru, src/tap_sailthru/streams.py.                              *)
(*                                                                         *)
(* The job-backed list_members stream: ListMemberStream._sync_records      *)
(* drives ListMemberStream.get_records (job submission), get_job_url (job  *)
(* polling) and process_job_csv (export decode), and emits RECORD, STATE   *)
(* and child-sync events.  UsersStream.request_records is the paginated    *)
(* fetch loop of the child stream.                                         *)
(***************************************************************************)
EXTENDS Integers, Sequences, FiniteSets, TLC

\* ------------------------------------------------------------------ bounds
\* number of partitions (contexts) of the stream
NumContexts == 2
\* longest export, in data rows
MaxRows == 2
\* the timeout handed to get_job_url, in seconds (600 by default in the code)
JobTimeout == 2
\* longest time one poll request may take, in seconds
MaxPollDelay == 1
\* how many UTC midnights may pass while the process runs
MaxMidnights == 1
\* most requests one request_records call is followed through
MaxRequests == 5
\* largest pagination token of the backend
MaxToken == 3
\* the record limit of the stream, when one is set
RecordLimit == 1
\* records between two interim STATE messages (STATE_MSG_FREQUENCY)
StateFrequency == 2
\* the day number on which the process starts
StartDay == 3
\* most columns of an export
MaxColumns == 2

\* --------------------------------------------------------------- constants
\* max_tries of the backoff decorator of process_job_csv
MaxTries == 3
\* timedelta.seconds is the seconds part of a duration, below one day
SecondsPerDay == 86400

None == 0
Absent == 0 - 1
Empty == 0
Bad == 0 - 2

VARIABLES
    selected,               \* self.selected
    max_records_limit,      \* self._MAX_RECORDS_LIMIT, None when unset
    context,                \* the context argument of _sync_records, None when absent
    pc,                     \* where _sync_records stands
    idx,                    \* position of current_context in context_list
    record_count,
    partition_record_count,
    stream_state,           \* per context: the bookmark and its progress marker
    whole_stream_state,     \* self.stream_state: the stream's own entry of the state
    events,                 \* the messages written so far, in order
    error,                  \* the exception that left _sync_records, "none" if none
    status,                 \* get_job_url: last status observed
    elapsed,                \* get_job_url: seconds since job_start_time
    job_completes,          \* whether the backend ever reports the job completed
    job,                    \* the export job of current_context
    outcomes,               \* per position in context_list: how its get_records ended
    today,                  \* current UTC day
    u_pc,                   \* where UsersStream.request_records stands
    next_page_token,
    previous_token,
    finished,
    responses,              \* the next-page tokens of the responses received, in order
    requests,               \* the pagination token each request carried, in order
    yielded,                \* the pages whose records were yielded, in order
    u_error,                \* the exception that left request_records
    schema_keys,            \* post_process, line 621: the properties of self._schema
    d_name,                 \* process_job_csv: self.name of the stream that decodes
    d_header,               \* process_job_csv: the header line of the export
    d_rows,                 \* process_job_csv: the data rows of the export, in order
    d_params,               \* process_job_csv: parent_params
    d_out,                  \* process_job_csv: the mappings yielded so far
    s_pc,                   \* signup derivation: where the pass over the record stands
    s_record,               \* signup derivation: the record
    s_out,                  \* signup derivation: what the pass over the record did
    p_pc,                   \* end of a context: where the step stands
    p_context,              \* end of a context: current_context
    p_state_partition_context, \* end of a context: state_partition_context
    p_bookmark              \* end of a context: the bookmark of the context

vars == << selected, max_records_limit, context, pc, idx, record_count,
           partition_record_count, stream_state, whole_stream_state, events,
           error, status, elapsed, job_completes, job, outcomes, today, u_pc, next_page_token,
           previous_token, finished, responses, requests, yielded, u_error,
           schema_keys, d_name, d_header, d_rows, d_params, d_out, s_pc,
           s_record, s_out, p_pc, p_context, p_state_partition_context, p_bookmark >>

\* the variables of the export decode taken alone
decode == << d_name, d_header, d_rows, d_params, d_out >>

\* the variables of the signup derivation taken alone
signup == << s_pc, s_record, s_out >>

\* the variables of the end-of-context step taken alone
partition == << p_pc, p_context, p_state_partition_context, p_bookmark >>

others == << decode, signup, partition >>

\* the variables of UsersStream.request_records
users == << u_pc, next_page_token, previous_token, finished, responses, requests,
            yielded, u_error >>

\* the variables of ListMemberStream._sync_records
sync == << selected, max_records_limit, context, pc, idx, record_count,
           partition_record_count, stream_state, whole_stream_state, events,
           error, status, elapsed, job_completes, job, outcomes, today >>

\* ------------------------------------------------------------ input domains
Contexts == 1..NumContexts

\* self.partitions: one context per list; list_id and list_name are the number
partitions == [i \in 1..NumContexts |-> i]

\* line 509: context_list = [context] if context is not None else self.partitions
context_list == IF context # None THEN << context >> ELSE partitions

\* line 460: signup_dt = pendulum.yesterday('UTC'), evaluated once, when the
\* class is defined
Yesterday(day) == day - 1

signup_dt == Yesterday(StartDay)

\* line 461
selectively_sync_children == TRUE

\* STATE_MSG_FREQUENCY of the stream
STATE_MSG_FREQUENCY == StateFrequency

\* A row of the export: rk is the replication key value ("List Signup"),
\* list_signup, profile_created_date and signup_date are Absent (no such key),
\* Empty (""), Bad (a string that is no timestamp) or a day number (a string
\* that parses to that day); profile_id is Absent or the "Profile Id".  The
\* export has no column "List Id", "List Name" or "Name": list_id, list_name
\* and name are Absent in a row of the export.  custom_vars is the list
\* post_process adds, empty in a row of the export.  A field of a record that
\* has no such key is Absent, rk included.
Row(rk, ls, pcd, sd, pid) ==
    [rk |-> rk, list_signup |-> ls, profile_created_date |-> pcd,
     signup_date |-> sd, profile_id |-> pid, list_id |-> Absent,
     list_name |-> Absent, name |-> Absent, custom_vars |-> << >>]

Rows ==
    { Row(1, signup_dt + 1, Absent, Absent, 7),
      Row(2, signup_dt, Absent, Absent, 8),
      Row(2, Absent, Absent, signup_dt + 1, 7),
      Row(1, signup_dt + 1, Absent, Absent, Absent) }

NoRow == Row(None, Absent, Absent, Absent, Absent)

Statuses == { "processing", "failed", "completed" }

\* The export job of one context.  nrows: the data rows of the export file;
\* ntrunc: how many fetch attempts, from the first on, the transport cuts off;
\* k: the rows a cut-off attempt delivers before ChunkedEncodingError; rows:
\* the rows handed to the record loop so far; polled: whether a poll request
\* was issued; fetches: requests for the export file.
NoJob ==
    [nrows |-> 0, ntrunc |-> 0, k |-> 0, rows |-> << >>, polled |-> FALSE,
     fetches |-> 0]

\* the bookmark of one context
NoBookmark == [replication_key_value |-> None, starting |-> FALSE]

\* ---------------------------------------------------------------- messages
NoChild == [list_id |-> None, user_id |-> None, list_name |-> None]

RecordMessage(ctx, record) == [type |-> "RECORD", ctx |-> ctx, row |-> record, child |-> NoChild]

StateMessage(ctx) == [type |-> "STATE", ctx |-> ctx, row |-> NoRow, child |-> NoChild]

\* self._sync_children(child_context): the sync of the child stream, run to
\* its end inside the call
ChildSync(ctx, record, child) == [type |-> "CHILD", ctx |-> ctx, row |-> record, child |-> child]

\* ------------------------------------------------- get_job_url, lines 48-64
TimedOutDays(duration, timeout) == duration \div SecondsPerDay > timeout

\* the elapsed time never passes the timeout by more than one poll and sleep
MaxElapsed == JobTimeout + MaxPollDelay + 1

\* (now - job_start_time).seconds
Seconds(duration) == duration % SecondsPerDay

\* line 56
TimedOut(duration, timeout) == Seconds(duration) > timeout

\* ------------------------------------------------ get_records, lines 602-606
\* the except clause around get_job_url
CaughtNone(ex) == FALSE

Caught(ex) == ex = "MaxRetryError"

\* ---------------------------------------------- process_job_csv, lines 84-102
\* the rows attempt number a of the transfer delivers before it ends or breaks
Available(j, a) == IF a <= j.ntrunc THEN j.k ELSE j.nrows

\* One requests.get; the rows read before a ChunkedEncodingError are yielded,
\* the error is caught inside the generator and ends it.  The generator is
\* what the backoff decorator returns at once, so nothing is fetched again.
\* yields: how many rows the generator yields; raised: whether the error
\* leaves it.
process_job_csv_reraising(j) ==
    [yields |-> Available(j, 1), fetches |-> 1, raised |-> j.ntrunc >= 1]

process_job_csv(j) ==
    [yields |-> Available(j, 1), fetches |-> 1, raised |-> FALSE]

\* ----------------------------------------- process_job_csv: the decoded rows
\* A field mapping (a dict) is the sequence of its items, in insertion order.
\* A value carries its Python type: the cells of the export are strings, the
\* injected fields are whatever get_records was given.
Value(type, v) == [type |-> type, v |-> v]

\* the cells an export may hold: two different strings
Cells == { Value("str", 1), Value("str", 2) }

Item(key, val) == [key |-> key, val |-> val]

Keys(row) == { row[i].key : i \in 1..Len(row) }

Get(row, key) == row[CHOOSE i \in 1..Len(row) : row[i].key = key].val

\* the column names an export may have; "Color" is a custom variable of the
\* account
HeaderKeys == { "Email Hash", "List Id", "blast_id", "Color" }

\* the headers of up to n distinct columns
RECURSIVE Headers(_)
Headers(n) ==
    IF n = 0 THEN { << >> }
    ELSE LET shorter == Headers(n - 1)
         IN shorter \cup { Append(h, k) : h \in shorter, k \in HeaderKeys }

DistinctHeaders ==
    { h \in Headers(MaxColumns) :
        Len(h) >= 1 /\ \A i, j \in 1..Len(h) : i # j => h[i] # h[j] }

RECURSIVE Exports(_, _)
\* the exports of up to n data rows of width w
Exports(w, n) ==
    IF n = 0 THEN { << >> }
    ELSE LET shorter == Exports(w, n - 1)
         IN shorter \cup { Append(e, r) : e \in shorter, r \in [1..w -> Cells] }

\* lines 610-614: the parent_params of list_members under a context
list_parent_params(ctx) ==
    << Item("List Name", Value("str", ctx)), Item("List Id", Value("int", ctx)),
       Item("Account Name", Value("none", 0)) >>

\* lines 610-614 and 343-346: the parent_params of the two job-backed streams
parent_params(name) ==
    IF name = "list_members"
    THEN << Item("List Name", Value("str", 8)), Item("List Id", Value("int", 9)),
            Item("Account Name", Value("none", 0)) >>
    ELSE << Item("blast_id", Value("int", 9)),
            Item("account_name", Value("none", 0)) >>

\* schemas/list_members.json, read at line 621: the properties the schema
\* of list_members may have.  NarrowSchema has the primary keys and the
\* injected fields, WideSchema the fields the record loop reads as well.
NarrowSchema == { "Email Hash", "List Id", "List Name", "Account Name", "custom_vars" }

WideSchema ==
    NarrowSchema \cup { "Profile Id", "List Signup", "list_signup",
                        "profile_created_date", "signup_date" }

Schemas == { NarrowSchema, WideSchema }

\* str(v)
Str(val) == Value("str", val.v)

\* csv.DictReader, line 91: the cells of a data row under the header
zip(header, cells) == [i \in 1..Len(header) |-> Item(header[i], cells[i])]

\* row[key] = val
SetItem(row, key, val) ==
    IF key \in Keys(row)
    THEN [i \in 1..Len(row) |-> IF row[i].key = key THEN Item(key, val) ELSE row[i]]
    ELSE Append(row, Item(key, val))

SetDefault(row, key, val) ==
    IF key \in Keys(row) THEN row ELSE Append(row, Item(key, val))

RECURSIVE update_missing(_, _)
update_missing(row, params) ==
    IF params = << >> THEN row
    ELSE update_missing(SetDefault(row, Head(params).key, Head(params).val), Tail(params))

RECURSIVE update(_, _)
\* line 93: row.update(parent_params)
update(row, params) ==
    IF params = << >> THEN row
    ELSE update(SetItem(row, Head(params).key, Head(params).val), Tail(params))

\* lines 618-634
post_process(row) ==
    LET kept == SelectSeq(row, LAMBDA it : it.key \in schema_keys)
        vars_ == SelectSeq(row, LAMBDA it : it.key \notin schema_keys)
        custom_vars_arr == [i \in 1..Len(vars_) |->
                               [var_name |-> vars_[i].key, var_value |-> Str(vars_[i].val)]]
    IN SetItem(kept, "custom_vars", Value("list", custom_vars_arr))

\* lines 92-97: what process_job_csv yields for one mapping of the reader
yield_row(name, row, params) ==
    LET merged == IF params # << >> THEN update(row, params) ELSE row
    IN IF name = "list_members" THEN post_process(merged) ELSE merged

\* lines 91-97: what process_job_csv yields for one data row
decode_row(name, header, cells, params) ==
    yield_row(name, zip(header, cells), params)

\* The record loop reads eight fields of a record: a record of the loop is
\* the mapping restricted to them, with the list under custom_vars.
Field(items, key) == IF key \in Keys(items) THEN Get(items, key).v ELSE Absent

\* the cell of a row of the export under a column, if the export has it
Column(key, v) == IF v = Absent THEN << >> ELSE << Item(key, Value("str", v)) >>

\* line 91: the mapping csv.DictReader gives for a row of the export
ToItems(row) ==
    Column("List Signup", row.rk) \o Column("list_signup", row.list_signup)
        \o Column("profile_created_date", row.profile_created_date)
        \o Column("signup_date", row.signup_date)
        \o Column("Profile Id", row.profile_id) \o Column("Name", row.name)
        \o Column("List Name", row.list_name) \o Column("List Id", row.list_id)

FromItems(items) ==
    [rk |-> Field(items, "List Signup"),
     list_signup |-> Field(items, "list_signup"),
     profile_created_date |-> Field(items, "profile_created_date"),
     signup_date |-> Field(items, "signup_date"),
     profile_id |-> Field(items, "Profile Id"),
     list_id |-> Field(items, "List Id"),
     list_name |-> Field(items, "List Name"),
     name |-> Field(items, "Name"),
     custom_vars |-> IF "custom_vars" \in Keys(items)
                     THEN Get(items, "custom_vars").v ELSE << >>]

\* lines 91-95 for list_members under a context: the record the loop of
\* line 522 gets for a row of the export
process_row(row, ctx) ==
    FromItems(yield_row("list_members", ToItems(row), list_parent_params(ctx)))

\* ------------------------------------------ get_child_context, lines 481-493
\* record["List Id"] and record["Profile Id"] raise KeyError when the record
\* has no such key; the list name is record["List Name"], else
\* record["Name"], else the child context has no list_name (Absent)
get_child_context(record, ctx) ==
    IF record.list_id = Absent \/ record.profile_id = Absent
    THEN [raised |-> TRUE, child |-> NoChild]
    ELSE [raised |-> FALSE,
          child |-> [list_id |-> record.list_id,
                     user_id |-> record.profile_id,
                     list_name |-> IF record.list_name # Absent
                                   THEN record.list_name
                                   ELSE record.name]]

\* --------------------------------------------- _sync_records, lines 537-554
\* pendulum.parse: a timestamp, or ValueError
Parses(v) == v > 0

Fallback(now) == Yesterday(now)

ParseOr(v, now) == IF Parses(v) THEN v ELSE Fallback(now)

\* lines 542-545 and 547-550: len(record['profile_created_date']) raises
\* KeyError when the key is absent
FromProfileCreated(record, now) ==
    IF record.profile_created_date = Absent THEN Fallback(now)
    ELSE IF record.profile_created_date # Empty
         THEN ParseOr(record.profile_created_date, now)
         ELSE IF record.signup_date = Absent THEN Fallback(now)
              ELSE ParseOr(record.signup_date, now)

list_signup(record, now) ==
    IF record.list_signup # Absent
    THEN IF record.list_signup # Empty
         THEN ParseOr(record.list_signup, now)
         ELSE FromProfileCreated(record, now)
    ELSE FromProfileCreated(record, now)

\* line 555
SyncsChildrenLax(record, now) ==
    selectively_sync_children /\ list_signup(record, now) >= signup_dt

SyncsChildren(record, now) ==
    selectively_sync_children /\ list_signup(record, now) > signup_dt

\* line 557: the record limit of the stream
check_max_record_limit(count, limit) == limit # None /\ count > limit

\* line 563: the bookmark advances to the record's replication key value; a
\* value below the bookmark is the sort error, a record without the
\* replication key a KeyError
increment_stream_state(bookmark, rk) ==
    IF rk = Absent
    THEN [raised |-> TRUE, bookmark |-> bookmark, error |-> "KeyError"]
    ELSE IF bookmark.replication_key_value = None
            \/ rk >= bookmark.replication_key_value
         THEN [raised |-> FALSE, error |-> "none",
               bookmark |-> [bookmark EXCEPT !.replication_key_value = rk]]
         ELSE [raised |-> TRUE, bookmark |-> bookmark,
               error |-> "InvalidStreamSortException"]

\* line 517
write_starting_replication_value(bookmark) == [bookmark EXCEPT !.starting = TRUE]

\* lines 578-580: finalize_state_progress_markers(state)
finalize_state_progress_markers(bookmark) == [bookmark EXCEPT !.starting = FALSE]

\* line 516: ListMemberStream has no state_partitioning_keys, its contexts
\* are their own state partition contexts
state_partition_context(ctx) == ctx

end_of_context_always(bookmark, ctx, spc) ==
    finalize_state_progress_markers(bookmark)

\* the stream's own entry of the state handed to the tap; it holds a progress
\* marker that an interrupted run left there
StartingStreamState == [replication_key_value |-> None, starting |-> TRUE]

finalize_stream_state_always(state, ctx) ==
    finalize_state_progress_markers(state)

\* lines 581-584: if not context: finalize_state_progress_markers(self.stream_state)
finalize_stream_state(state, ctx) ==
    IF ctx = None THEN finalize_state_progress_markers(state) ELSE state

\* lines 578-580
end_of_context(bookmark, ctx, spc) ==
    IF ctx = spc THEN finalize_state_progress_markers(bookmark) ELSE bookmark

\* lines 558-574, the stream selected: the interim STATE message, the RECORD
\* message, then the bookmark
EmitChecked(evs, bookmark, ctx, record, count) ==
    LET inc == increment_stream_state(bookmark, record.rk)
        withState == IF (count - 1) % STATE_MSG_FREQUENCY = 0
                     THEN Append(evs, StateMessage(ctx)) ELSE evs
    IN [events |-> IF inc.raised THEN withState
                   ELSE Append(withState, RecordMessage(ctx, record)),
        bookmark |-> inc.bookmark,
        error |-> inc.error]

EmitOrCheckpoint(evs, bookmark, ctx, record, count) ==
    LET inc == increment_stream_state(bookmark, record.rk)
    IN [events |-> IF (count - 1) % STATE_MSG_FREQUENCY = 0
                   THEN Append(evs, StateMessage(ctx))
                   ELSE Append(evs, RecordMessage(ctx, record)),
        bookmark |-> inc.bookmark,
        error |-> inc.error]

EmitSparse(evs, bookmark, ctx, record, count) ==
    LET inc == increment_stream_state(bookmark, record.rk)
        withState == IF (count - 1) % (STATE_MSG_FREQUENCY + 1) = 0
                     THEN Append(evs, StateMessage(ctx)) ELSE evs
    IN [events |-> Append(withState, RecordMessage(ctx, record)),
        bookmark |-> inc.bookmark,
        error |-> inc.error]

Emit(evs, bookmark, ctx, record, count) ==
    LET inc == increment_stream_state(bookmark, record.rk)
        withState == IF (count - 1) % STATE_MSG_FREQUENCY = 0
                     THEN Append(evs, StateMessage(ctx)) ELSE evs
    IN [events |-> Append(withState, RecordMessage(ctx, record)),
        bookmark |-> inc.bookmark,
        error |-> inc.error]

\* lines 523-577: one pass of the record loop.  The result is the messages,
\* the bookmark of the context and the exception that ends the pass.
SyncRecordChildLast(evs, bookmark, ctx, record, count, limit, sel, now) ==
    LET cc == get_child_context(record, ctx)
        own == IF sel THEN Emit(evs, bookmark, ctx, record, count)
               ELSE [events |-> evs, bookmark |-> bookmark, error |-> "none"]
        withChild == IF SyncsChildren(record, now)
                     THEN Append(own.events, ChildSync(ctx, record, cc.child))
                     ELSE own.events
    IN IF cc.raised
       THEN [events |-> evs, bookmark |-> bookmark, error |-> "KeyError"]
       ELSE IF check_max_record_limit(count, limit)
            THEN [events |-> evs, bookmark |-> bookmark,
                  error |-> "MaxRecordsLimitException"]
            ELSE [events |-> withChild, bookmark |-> own.bookmark,
                  error |-> own.error]

SyncRecordSelectedOnly(evs, bookmark, ctx, record, count, limit, sel, now) ==
    LET cc == get_child_context(record, ctx)
        withChild == IF SyncsChildren(record, now)
                     THEN Append(evs, ChildSync(ctx, record, cc.child)) ELSE evs
    IN IF cc.raised
       THEN [events |-> evs, bookmark |-> bookmark, error |-> "KeyError"]
       ELSE IF ~sel
            THEN [events |-> evs, bookmark |-> bookmark, error |-> "none"]
            ELSE IF check_max_record_limit(count, limit)
                 THEN [events |-> withChild, bookmark |-> bookmark,
                       error |-> "MaxRecordsLimitException"]
                 ELSE Emit(withChild, bookmark, ctx, record, count)

SyncRecord(evs, bookmark, ctx, record, count, limit, sel, now) ==
    LET cc == get_child_context(record, ctx)
        withChild == IF SyncsChildren(record, now)
                     THEN Append(evs, ChildSync(ctx, record, cc.child)) ELSE evs
    IN IF cc.raised
       THEN [events |-> evs, bookmark |-> bookmark, error |-> "KeyError"]
       ELSE IF check_max_record_limit(count, limit)
            THEN [events |-> withChild, bookmark |-> bookmark,
                  error |-> "MaxRecordsLimitException"]
            ELSE IF sel
                 THEN Emit(withChild, bookmark, ctx, record, count)
                 ELSE [events |-> withChild, bookmark |-> bookmark, error |-> "none"]

\* ------------------------------------------------------------------ actions
current_context == context_list[idx]

\* the decode, the signup derivation and the end-of-context step are not
\* followed on their own while a sync or a fetch of users is
DecodeIdle ==
    /\ d_name = ""
    /\ d_header = << >>
    /\ d_rows = << >>
    /\ d_params = << >>
    /\ d_out = << >>

SignupIdle ==
    /\ s_pc = "idle"
    /\ s_record = NoRow
    /\ s_out = [events |-> << >>, bookmark |-> NoBookmark, error |-> "none"]

PartitionIdle ==
    /\ p_pc = "idle"
    /\ p_context = << >>
    /\ p_state_partition_context = << >>
    /\ p_bookmark = NoBookmark

Init ==
    /\ selected \in BOOLEAN
    /\ max_records_limit \in { None, RecordLimit }
    /\ context \in { None, 1 }
    /\ pc = "loop"
    /\ idx = 0
    /\ record_count = 0
    /\ partition_record_count = 0
    /\ stream_state = [c \in Contexts |-> NoBookmark]
    /\ whole_stream_state = StartingStreamState
    /\ events = << >>
    /\ error = "none"
    /\ status = ""
    /\ elapsed = 0
    /\ job_completes = TRUE
    /\ job = NoJob
    /\ outcomes = [i \in 1..NumContexts |-> "none"]
    /\ today = StartDay
    /\ schema_keys \in Schemas
    /\ u_pc = "idle"
    /\ next_page_token = None
    /\ previous_token = None
    /\ finished = FALSE
    /\ responses = << >>
    /\ requests = << >>
    /\ yielded = << >>
    /\ u_error = "none"
    /\ DecodeIdle
    /\ SignupIdle
    /\ PartitionIdle

EndOfRecordsUnlessSkipped(outcome) ==
    /\ stream_state' = [stream_state EXCEPT
           ![current_context] = IF outcome = "skipped" THEN @
                                ELSE end_of_context(@, current_context,
                                         state_partition_context(current_context))]
    /\ outcomes' = [outcomes EXCEPT ![idx] = outcome]
    /\ pc' = "loop"

\* lines 578-580: the records of the context are exhausted; the context is
\* its own state partition context (no state_partitioning_keys), so its
\* progress markers are finalized, and the loop goes to the next context
EndOfRecords(outcome) ==
    /\ stream_state' = [stream_state EXCEPT
           ![current_context] = end_of_context(@, current_context,
                                    state_partition_context(current_context))]
    /\ outcomes' = [outcomes EXCEPT ![idx] = outcome]
    /\ pc' = "loop"

\* an exception leaves _sync_records
Raise(ex, outcome) ==
    /\ error' = ex
    /\ outcomes' = [outcomes EXCEPT ![idx] = outcome]
    /\ pc' = "aborted"

\* lines 512-521: the next context of context_list
StartContext ==
    /\ pc = "loop"
    /\ idx < Len(context_list)
    /\ idx' = idx + 1
    /\ partition_record_count' = 0
    /\ stream_state' = [stream_state EXCEPT
           ![context_list[idx + 1]] = write_starting_replication_value(@)]
    /\ job' = NoJob
    /\ status' = ""
    /\ pc' = "submit"
    /\ UNCHANGED << selected, max_records_limit, context, record_count, events,
                    error, elapsed, job_completes, outcomes, today >>
    /\ UNCHANGED whole_stream_state
    /\ UNCHANGED users
    /\ UNCHANGED others
    /\ UNCHANGED schema_keys

\* get_records, lines 593-603: the job is submitted.  A response with an
\* error is logged and the code goes on to response['job_id'], which an error
\* response does not have.
Submit ==
    /\ pc = "submit"
    /\ \E rejected \in BOOLEAN :
         IF rejected
         THEN /\ IF Caught("KeyError")
                 THEN EndOfRecords("rejected") /\ UNCHANGED error
                 ELSE Raise("KeyError", "rejected") /\ UNCHANGED stream_state
              /\ UNCHANGED job_completes
         ELSE /\ pc' = "poll"
              /\ job_completes' \in BOOLEAN
              /\ UNCHANGED << error, outcomes, stream_state >>
    /\ UNCHANGED << selected, max_records_limit, context, idx, record_count,
                    partition_record_count, events, status, elapsed, job, today >>
    /\ UNCHANGED whole_stream_state
    /\ UNCHANGED users
    /\ UNCHANGED others
    /\ UNCHANGED schema_keys

\* get_job_url, lines 50-64: one pass of the polling loop.  The request may
\* fail with MaxRetryError, which get_records catches (lines 604-606).
Poll ==
    /\ pc = "poll"
    /\ elapsed <= MaxElapsed
    /\ \/ /\ IF Caught("MaxRetryError")
             THEN EndOfRecords("skipped") /\ UNCHANGED error
             ELSE Raise("MaxRetryError", "skipped") /\ UNCHANGED stream_state
          /\ elapsed' = 0
          /\ job_completes' = TRUE
          /\ job' = [job EXCEPT !.polled = TRUE]
          /\ UNCHANGED status
       \/ \E s \in IF job_completes THEN Statuses ELSE Statuses \ { "completed" },
             delay \in 0..MaxPollDelay :
            /\ status' = s
            /\ job' = [job EXCEPT !.polled = TRUE]
            /\ IF TimedOut(elapsed + delay, JobTimeout)
               THEN /\ IF Caught("SailthruJobTimeoutError")
                       THEN EndOfRecords("timeout") /\ UNCHANGED error
                       ELSE Raise("SailthruJobTimeoutError", "timeout")
                            /\ UNCHANGED stream_state
                    /\ elapsed' = elapsed + delay
                    /\ UNCHANGED job_completes
               ELSE IF s = "completed"
                    THEN /\ pc' = "fetch"
                         /\ elapsed' = 0
                         /\ job_completes' = TRUE
                         /\ UNCHANGED << error, outcomes, stream_state >>
                    ELSE /\ elapsed' = elapsed + delay + 1
                         /\ UNCHANGED << pc, error, outcomes, job_completes,
                                         stream_state >>
    /\ UNCHANGED << selected, max_records_limit, context, idx, record_count,
                    partition_record_count, events, today >>
    /\ UNCHANGED whole_stream_state
    /\ UNCHANGED users
    /\ UNCHANGED others
    /\ UNCHANGED schema_keys

\* process_job_csv, line 84: the export is requested.  The size of the file
\* and the way the transport treats each attempt are the backend's.
Fetch ==
    /\ pc = "fetch"
    /\ \E nrows \in 0..MaxRows, ntrunc \in 0..MaxTries, k \in 0..MaxRows :
         /\ IF ntrunc = 0 THEN k = nrows ELSE k < nrows
         /\ LET j == [job EXCEPT !.nrows = nrows, !.ntrunc = ntrunc, !.k = k]
            IN job' = [j EXCEPT !.fetches = process_job_csv(j).fetches]
    /\ pc' = "rows"
    /\ UNCHANGED << selected, max_records_limit, context, idx, record_count,
                    partition_record_count, stream_state, events, error, status,
                    elapsed, job_completes, outcomes, today >>
    /\ UNCHANGED whole_stream_state
    /\ UNCHANGED users
    /\ UNCHANGED others
    /\ UNCHANGED schema_keys

\* lines 522-577: the next row of the export goes through the record loop
NextRecord ==
    /\ pc = "rows"
    /\ Len(job.rows) < process_job_csv(job).yields
    /\ \E record \in { process_row(row, current_context) : row \in Rows } :
         LET res == SyncRecord(events, stream_state[current_context], current_context,
                               record, record_count, max_records_limit, selected, today)
         IN /\ events' = res.events
            /\ stream_state' = [stream_state EXCEPT ![current_context] = res.bookmark]
            /\ job' = [job EXCEPT !.rows = Append(@, record)]
            /\ IF res.error # "none"
               THEN /\ Raise(res.error, "aborted")
                    /\ UNCHANGED << record_count, partition_record_count >>
               ELSE /\ record_count' = record_count + 1
                    /\ partition_record_count' = partition_record_count + 1
                    /\ UNCHANGED << pc, error, outcomes >>
    /\ UNCHANGED << selected, max_records_limit, context, idx, status, elapsed,
                    job_completes, today >>
    /\ UNCHANGED whole_stream_state
    /\ UNCHANGED users
    /\ UNCHANGED others
    /\ UNCHANGED schema_keys

\* the generator of process_job_csv ends
EndOfExport ==
    /\ pc = "rows"
    /\ Len(job.rows) = process_job_csv(job).yields
    /\ IF process_job_csv(job).raised
       THEN /\ Raise("ChunkedEncodingError", "broken")
            /\ UNCHANGED stream_state
       ELSE /\ EndOfRecords("decoded")
            /\ UNCHANGED error
    /\ UNCHANGED << selected, max_records_limit, context, idx, record_count,
                    partition_record_count, events, status, elapsed,
                    job_completes, job, today >>
    /\ UNCHANGED whole_stream_state
    /\ UNCHANGED users
    /\ UNCHANGED others
    /\ UNCHANGED schema_keys

FinishSilent ==
    /\ pc = "loop"
    /\ idx = Len(context_list)
    /\ whole_stream_state' = finalize_stream_state(whole_stream_state, context)
    /\ events' = events
    /\ pc' = "done"
    /\ UNCHANGED << selected, max_records_limit, context, idx, record_count,
                    partition_record_count, stream_state, error, status, elapsed,
                    job_completes, job, outcomes, today >>
    /\ UNCHANGED users
    /\ UNCHANGED others
    /\ UNCHANGED schema_keys

\* lines 581-587: all contexts done; the stream's own entry is finalized when
\* no context was supplied, then the final STATE message is written
Finish ==
    /\ pc = "loop"
    /\ idx = Len(context_list)
    /\ whole_stream_state' = finalize_stream_state(whole_stream_state, context)
    /\ events' = Append(events, StateMessage(None))
    /\ pc' = "done"
    /\ UNCHANGED << selected, max_records_limit, context, idx, record_count,
                    partition_record_count, stream_state, error, status, elapsed,
                    job_completes, job, outcomes, today >>
    /\ UNCHANGED users
    /\ UNCHANGED others
    /\ UNCHANGED schema_keys

\* a UTC midnight passes while the export is read
Midnight ==
    /\ pc = "rows"
    /\ today < StartDay + MaxMidnights
    /\ today' = today + 1
    /\ UNCHANGED << selected, max_records_limit, context, pc, idx, record_count,
                    partition_record_count, stream_state, events, error, status,
                    elapsed, job_completes, job, outcomes >>
    /\ UNCHANGED whole_stream_state
    /\ UNCHANGED users
    /\ UNCHANGED others
    /\ UNCHANGED schema_keys

Next ==
    \/ StartContext
    \/ Submit
    \/ Poll
    \/ Fetch
    \/ NextRecord
    \/ EndOfExport
    \/ Finish
    \/ Midnight

Spec == Init /\ [][Next]_vars

\* _sync_records called with one context, as a parent stream calls it
InitOneContext == Init /\ context # None

\* get_job_url loops while its requests return: a poll that can be made is made
FairSpec == InitOneContext /\ [][Next]_vars /\ WF_vars(Poll)

\* ------------------------------------------------------- reading the output
IsRecordOf(e, ctx) == e.type = "RECORD" /\ e.ctx = ctx

IsChildOf(e, ctx) == e.type = "CHILD" /\ e.ctx = ctx

\* the rows of the RECORD messages written for ctx, in order
RecordsOf(evs, ctx) ==
    LET sel == SelectSeq(evs, LAMBDA e : IsRecordOf(e, ctx))
    IN [i \in 1..Len(sel) |-> sel[i].row]

ChildSyncsOf(evs, ctx) == SelectSeq(evs, LAMBDA e : IsChildOf(e, ctx))

NonDecreasing(rows) ==
    \A i \in 1..Len(rows) : \A j \in i..Len(rows) : rows[i].rk <= rows[j].rk

\* the record loop of a context is running or has run
InContext == idx >= 1

\* the messages a step appends
Appended == SubSeq(events', Len(events) + 1, Len(events'))

\* ------------------------------------------------------------------- claims

\* C1, as stated: when the ordering violation is raised, every record before
\* the offending one has been emitted and the offending record has not.
C1_OffendingNotEmitted ==
    error = "InvalidStreamSortException" =>
        RecordsOf(events, current_context) = SubSeq(job.rows, 1, Len(job.rows) - 1)

\* C1, amended: when the ordering violation is raised, every record up to and
\* including the offending one has been emitted, in source order, the
\* offending record is the last message written, and the bookmark stays at
\* the value of the record before it.
C1_OffendingEmittedLast ==
    error = "InvalidStreamSortException" =>
        /\ Len(job.rows) >= 2
        /\ job.rows[Len(job.rows)].rk < job.rows[Len(job.rows) - 1].rk
        /\ NonDecreasing(SubSeq(job.rows, 1, Len(job.rows) - 1))
        /\ RecordsOf(events, current_context) = job.rows
        /\ events[Len(events)] = RecordMessage(current_context, job.rows[Len(job.rows)])
        /\ stream_state[current_context].replication_key_value
               = job.rows[Len(job.rows) - 1].rk

C1_Witness ==
    /\ error = "InvalidStreamSortException"
    /\ Len(job.rows) = 2
    /\ job.rows[1].rk = 2
    /\ job.rows[2].rk = 1

\* C2: while the rows a selected stream has read for a context are
\* non-decreasing in the replication key, no ordering violation is raised,
\* and unless another exception ended the loop the RECORD messages of the
\* context are exactly those rows, each once and in source order, and the
\* bookmark of the context is the replication key value of the last of them.
C2_SortedRowsEmittedOnce ==
    (selected /\ InContext /\ NonDecreasing(job.rows)) =>
        /\ error # "InvalidStreamSortException"
        /\ error = "none" =>
              /\ RecordsOf(events, current_context) = job.rows
              /\ job.rows # << >> =>
                    stream_state[current_context].replication_key_value
                        = job.rows[Len(job.rows)].rk

C2_Witness ==
    /\ selected
    /\ pc = "loop"
    /\ InContext
    /\ outcomes[idx] = "decoded"
    /\ Len(job.rows) = 2
    /\ job.rows[1].rk = 1
    /\ job.rows[2].rk = 2
    /\ stream_state[current_context].replication_key_value = 2

\* C3, as stated: when the transfer is cut off on the first one or two
\* attempts and a later attempt, at most the third, is complete, the decode
\* of the context ends with all rows of the export handed to the consumer.
C3_RetryRecoversAllRows ==
    (InContext /\ outcomes[idx] = "decoded" /\ job.ntrunc \in 1..(MaxTries - 1)) =>
        Len(job.rows) = job.nrows

\* C4: when every attempt is cut off after row k, the consumer never gets more
\* than k rows, no ChunkedEncodingError leaves the decode, and when the
\* sequence ends it has handed over exactly k rows and the context is
\* finalized like a completely read one.
C4_TruncatedDecodeEndsNormally ==
    (InContext /\ job.ntrunc = MaxTries) =>
        /\ Len(job.rows) <= job.k
        /\ error # "ChunkedEncodingError"
        /\ pc \in { "loop", "done" } =>
              /\ Len(job.rows) = job.k
              /\ outcomes[idx] = "decoded"
              /\ error = "none"
              /\ ~stream_state[current_context].starting

C4_Witness ==
    /\ pc = "loop"
    /\ InContext
    /\ job.ntrunc = MaxTries
    /\ job.nrows = 2
    /\ job.k = 1
    /\ Len(job.rows) = 1
    /\ outcomes[idx] = "decoded"

\* C6, as stated: a poll that observes the status completed leads to a
\* return, never to SailthruJobTimeoutError.
C6_CompletedNeverTimesOut ==
    error = "SailthruJobTimeoutError" => status # "completed"

\* C7: a job whose status never becomes completed never yields an export
\* location, and its polling ends: with SailthruJobTimeoutError, unless a poll
\* request itself fails first.
C7_NeverCompletedTimesOut ==
    /\ [][(pc = "poll" /\ ~job_completes) => pc' # "fetch"]_vars
    /\ (pc = "poll" /\ ~job_completes) ~>
           (error = "SailthruJobTimeoutError" \/ (InContext /\ outcomes[idx] = "skipped"))

C7_Witness ==
    /\ error = "SailthruJobTimeoutError"
    /\ ~job_completes
    /\ status = "failed"
    /\ elapsed > JobTimeout

\* C8: a pass of the record loop over a record whose child context can be
\* derived calls the child sync exactly once, with the child context of that
\* record, when the signup timestamp derived from the record is strictly
\* after the cutoff, and does not call it otherwise.
C8_ChildSyncIffAfterCutoff ==
    [][ (pc = "rows" /\ Len(job'.rows) = Len(job.rows) + 1) =>
          LET record == job'.rows[Len(job'.rows)]
              calls == SelectSeq(Appended, LAMBDA e : e.type = "CHILD")
          IN record.profile_id # Absent =>
                IF list_signup(record, today) > signup_dt
                THEN /\ Len(calls) = 1
                     /\ calls[1].ctx = current_context
                     /\ calls[1].row = record
                     /\ calls[1].child = [list_id |-> current_context,
                                          user_id |-> record.profile_id,
                                          list_name |-> current_context]
                ELSE Len(calls) = 0 ]_vars

C8_Witness ==
    /\ InContext
    /\ error = "none"
    /\ Len(job.rows) = 2
    /\ job.rows[1].list_signup = signup_dt + 1
    /\ job.rows[2].list_signup = signup_dt
    /\ Len(ChildSyncsOf(events, current_context)) = 1
    /\ ChildSyncsOf(events, current_context)[1].row = job.rows[1]

\* C9, as stated: the job timeout error is caught and the sync goes on; it
\* never leaves _sync_records.
C9_TimeoutIsCaught ==
    (InContext /\ outcomes[idx] = "timeout") =>
        (error = "none" /\ pc # "aborted")

\* C10: a context whose polling failed with MaxRetryError has no RECORD
\* message, the error does not leave _sync_records, the context is finalized
\* and the loop stands at the next context (or at the final STATE message).
C10_ConnectivityFailureSkips ==
    /\ error # "MaxRetryError"
    /\ \A i \in 1..NumContexts :
          outcomes[i] = "skipped" =>
              /\ i <= idx
              /\ RecordsOf(events, context_list[i]) = << >>
              /\ ~stream_state[context_list[i]].starting
              /\ i = idx => (pc \in { "loop", "done" } /\ error = "none")

C10_Witness ==
    /\ context = None
    /\ idx = 2
    /\ outcomes[1] = "skipped"
    /\ outcomes[2] = "decoded"
    /\ selected
    /\ Len(RecordsOf(events, context_list[2])) = 2
    /\ pc = "done"

\* ---------------------------------- UsersStream.request_records, 668-700
Tokens == 1..MaxToken

\* sailthruStream.get_next_page_token(response, previous_token): the
\* next-page token of the response, None when there is none
get_next_page_token(response, previous) == response

\* line 674: request_data is prepared once, before the loop, with
\* next_page_token None; the value stands for the token the payload carries
request_data == None

\* line 686: the records of the page are yielded, whatever its token; the
\* generator is suspended there until its consumer asks for more
YieldPageChecked(yld, token, response, page) ==
    LET nxt == get_next_page_token(response, token)
    IN IF nxt # None /\ nxt = token THEN yld ELSE Append(yld, page)

YieldPage(yld, token, response, page) == Append(yld, page)

\* lines 687-697, when the generator is resumed: the token is extracted and
\* compared with the one before
PageStep(token, response) ==
    LET nxt == get_next_page_token(response, token)
    IN [previous_token |-> token,
        next_page_token |-> nxt,
        raised |-> nxt # None /\ nxt = token,
        finished |-> nxt = None]

UsersInit ==
    /\ selected = TRUE
    /\ max_records_limit = None
    /\ context = 1
    /\ pc = "child"
    /\ idx = 0
    /\ record_count = 0
    /\ partition_record_count = 0
    /\ stream_state = [c \in Contexts |-> NoBookmark]
    /\ whole_stream_state = StartingStreamState
    /\ events = << >>
    /\ error = "none"
    /\ status = ""
    /\ elapsed = 0
    /\ job_completes = TRUE
    /\ job = NoJob
    /\ outcomes = [i \in 1..NumContexts |-> "none"]
    /\ today = StartDay
    /\ schema_keys = WideSchema
    /\ u_pc = "loop"
    /\ next_page_token = None
    /\ previous_token = None
    /\ finished = FALSE
    /\ responses = << >>
    /\ requests = << >>
    /\ yielded = << >>
    /\ u_error = "none"
    /\ DecodeIdle
    /\ SignupIdle
    /\ PartitionIdle

\* lines 677-686: a request that is answered; the records of the page are
\* yielded and the generator is suspended at the yield
Request ==
    /\ u_pc = "loop"
    /\ ~finished
    /\ Len(requests) < MaxRequests
    /\ \E response \in Tokens \cup { None } :
         /\ requests' = Append(requests, request_data)
         /\ responses' = Append(responses, response)
         /\ yielded' = YieldPage(yielded, next_page_token, response,
                                 Len(responses) + 1)
    /\ u_pc' = "yield"
    /\ UNCHANGED << next_page_token, previous_token, finished, u_error >>
    /\ UNCHANGED sync
    /\ UNCHANGED others
    /\ UNCHANGED schema_keys

\* lines 687-697: the consumer asks for the next record and the generator
\* goes on after the yield
Resume ==
    /\ u_pc = "yield"
    /\ LET step == PageStep(next_page_token, responses[Len(responses)])
       IN /\ previous_token' = step.previous_token
          /\ next_page_token' = step.next_page_token
          /\ IF step.raised
             THEN /\ u_error' = "RuntimeError"
                  /\ u_pc' = "raised"
                  /\ UNCHANGED finished
             ELSE /\ finished' = step.finished
                  /\ u_pc' = IF step.finished THEN "returned" ELSE "loop"
                  /\ UNCHANGED u_error
    /\ UNCHANGED << responses, requests, yielded >>
    /\ UNCHANGED sync
    /\ UNCHANGED others
    /\ UNCHANGED schema_keys

\* line 686: the consumer stops iterating while the generator is suspended;
\* the generator is closed and lines 687-697 are not run for the page
Close ==
    /\ u_pc = "yield"
    /\ u_pc' = "closed"
    /\ UNCHANGED << next_page_token, previous_token, finished, responses,
                    requests, yielded, u_error >>
    /\ UNCHANGED sync
    /\ UNCHANGED others
    /\ UNCHANGED schema_keys

\* lines 698-700: a request that fails with SailthruClientError; the error
\* is logged and the loop condition is evaluated again
RequestFails ==
    /\ u_pc = "loop"
    /\ ~finished
    /\ Len(requests) < MaxRequests
    /\ requests' = Append(requests, request_data)
    /\ UNCHANGED << u_pc, next_page_token, previous_token, finished, responses,
                    yielded, u_error >>
    /\ UNCHANGED sync
    /\ UNCHANGED others
    /\ UNCHANGED schema_keys

UsersNext ==
    \/ Request
    \/ Resume
    \/ Close
    \/ RequestFails

UsersSpec == UsersInit /\ [][UsersNext]_vars

\* the pages 1..n
Pages(n) == [i \in 1..n |-> i]

\* C5, as stated: when the loop in the pagination is detected at page n, the
\* records of pages 1..n-1 have been yielded and no record of page n.
C5_LoopPageNotYielded ==
    u_error = "RuntimeError" => yielded = Pages(Len(responses) - 1)

\* C5, amended: when the token of page n equals the non-empty token of page
\* n-1, the loop error is raised after the records of pages 1..n have been
\* yielded: page n is yielded before its token is compared.
C5_LoopPageYielded ==
    u_error = "RuntimeError" =>
        /\ Len(responses) >= 2
        /\ responses[Len(responses)] # None
        /\ responses[Len(responses)] = responses[Len(responses) - 1]
        /\ yielded = Pages(Len(responses))
        /\ u_pc = "raised"

C5_Witness ==
    /\ u_error = "RuntimeError"
    /\ responses = << 1, 2, 2 >>
    /\ yielded = << 1, 2, 3 >>

\* C11, as stated: a context whose job submission was answered with an error
\* is skipped: it is not polled, it has no RECORD message, no error leaves
\* get_records and the sync goes on.
C11_RejectedJobSkips ==
    \A i \in 1..NumContexts :
        outcomes[i] = "rejected" =>
            /\ error = "none"
            /\ pc # "aborted"
            /\ i = idx => ~job.polled
            /\ RecordsOf(events, context_list[i]) = << >>

\* C12, as stated: with a record limit M configured, at most M records are
\* emitted in every reachable state; the sync aborts before record M + 1.
\* The records of the child syncs would come on top of the RECORD messages
\* counted here.
C12_AtMostLimitRecords ==
    max_records_limit # None =>
        Cardinality({ i \in 1..Len(events) : events[i].type = "RECORD" })
            <= max_records_limit

\* C13, as stated: a record without Profile Id loses only its child sync: the
\* parent sync does not abort and emits the record (when it is selected and
\* nothing else stops it).
C13_MissingFieldSkipsChildOnly ==
    (InContext /\ Len(job.rows) >= 1
        /\ job.rows[Len(job.rows)].profile_id = Absent) =>
        /\ error # "KeyError"
        /\ pc # "aborted"
        /\ (selected /\ max_records_limit = None) =>
               \E i \in 1..Len(events) :
                   IsRecordOf(events[i], current_context)
                       /\ events[i].row.profile_id = Absent

\* C15, as stated: a request that fails with SailthruClientError ends the
\* loop: no request follows it and the sequence ends without an error.
C15_ClientErrorEndsLoop ==
    Len(requests) > Len(responses) =>
        /\ Len(requests) = Len(responses) + 1
        /\ u_pc = "returned"
        /\ u_error = "none"

\* C16, as stated: the first request carries no pagination token and every
\* later request carries the token taken from the preceding response.
C16_RequestCarriesToken ==
    [][Len(requests') > Len(requests) =>
           requests'[Len(requests')] = next_page_token]_vars

\* the RECORD and STATE messages of the stream itself, without the child syncs
OwnMessages(evs) == SelectSeq(evs, LAMBDA e : e.type \in { "RECORD", "STATE" })

\* the number of RECORD messages among the first p messages
RecordsUpTo(msgs, p) == Cardinality({ i \in 1..p : msgs[i].type = "RECORD" })

\* C19: with checkpoint frequency N, a selected stream never writes more than
\* N RECORD messages of its own without a STATE message between them, and the
\* checkpoints follow the number of records written since the start of the
\* invocation, whatever the context: the k-th RECORD message comes right
\* after a STATE message exactly when k - 2 is a multiple of N.
C19_CheckpointEveryNRecords ==
    LET own == OwnMessages(events)
    IN /\ \A i \in 1..(Len(own) - STATE_MSG_FREQUENCY) :
              \E j \in i..(i + STATE_MSG_FREQUENCY) : own[j].type = "STATE"
       /\ \A p \in 1..Len(own) :
              own[p].type = "RECORD" =>
                  ((p > 1 /\ own[p - 1].type = "STATE")
                      <=> (RecordsUpTo(own, p) - 2) % STATE_MSG_FREQUENCY = 0)

C19_Witness ==
    /\ selected
    /\ idx = 2
    /\ RecordsUpTo(events, Len(events)) = 2 * STATE_MSG_FREQUENCY
    /\ \E i \in 1..Len(events) : events[i].type = "STATE" /\ events[i].ctx = 1
    /\ \E i \in 1..Len(events) : events[i].type = "STATE" /\ events[i].ctx = 2

\* no sync is running
SyncIdle ==
    /\ selected = TRUE
    /\ max_records_limit = None
    /\ context = 1
    /\ pc = "idle"
    /\ idx = 0
    /\ record_count = 0
    /\ partition_record_count = 0
    /\ stream_state = [c \in Contexts |-> NoBookmark]
    /\ whole_stream_state = StartingStreamState
    /\ events = << >>
    /\ error = "none"
    /\ status = ""
    /\ elapsed = 0
    /\ job_completes = TRUE
    /\ job = NoJob
    /\ outcomes = [i \in 1..NumContexts |-> "none"]

\* no fetch of users is running
UsersIdle ==
    /\ u_pc = "idle"
    /\ next_page_token = None
    /\ previous_token = None
    /\ finished = FALSE
    /\ responses = << >>
    /\ requests = << >>
    /\ yielded = << >>
    /\ u_error = "none"

\* process_job_csv is called by one of the two job-backed streams on an export
\* with a header and up to MaxRows data rows of the header's width
DecodeInit ==
    /\ SyncIdle
    /\ today = StartDay
    /\ schema_keys \in Schemas
    /\ UsersIdle
    /\ SignupIdle
    /\ PartitionIdle
    /\ d_name \in { "list_members", "blast_query" }
    /\ d_header \in DistinctHeaders
    /\ d_rows \in Exports(Len(d_header), MaxRows)
    /\ d_params = parent_params(d_name)
    /\ d_out = << >>

\* lines 91-97: one pass of the loop over the reader
DecodeRow ==
    /\ Len(d_out) < Len(d_rows)
    /\ d_out' = Append(d_out, decode_row(d_name, d_header,
                                         d_rows[Len(d_out) + 1], d_params))
    /\ UNCHANGED << d_name, d_header, d_rows, d_params >>
    /\ UNCHANGED << sync, users, signup, partition >>
    /\ UNCHANGED schema_keys

DecodeNext == DecodeRow

DecodeSpec == DecodeInit /\ [][DecodeNext]_vars

\* the value the claim gives a key of the i-th mapping: the injected one
\* when the key is injected, the cell under that column otherwise
Claimed(i, key) ==
    IF key \in Keys(d_params) THEN Get(d_params, key)
    ELSE d_rows[i][CHOOSE c \in 1..Len(d_header) : d_header[c] = key]

ClaimedKeys == Keys(d_params) \cup { d_header[c] : c \in 1..Len(d_header) }

NoDuplicateKeys(row) == \A i, j \in 1..Len(row) : row[i].key = row[j].key => i = j

\* C14, as stated: for both job-backed streams the i-th mapping yielded has
\* the columns of the header and the injected fields as its keys, with the
\* injected value where there is one and the cell of row i otherwise.
C14_DecodedIsRowPlusInjected ==
    \A i \in 1..Len(d_out) :
        /\ NoDuplicateKeys(d_out[i])
        /\ Keys(d_out[i]) = ClaimedKeys
        /\ \A key \in ClaimedKeys : Get(d_out[i], key) = Claimed(i, key)

\* C14, amended: the mappings are yielded one per data row, in row order.
\* For blast_query each is the row under the header overridden by the
\* injected fields.  For list_members it is post_process of that: the keys
\* of the schema keep their (overridden) value, every other key is moved,
\* with its value as a string, into the list under the key custom_vars,
\* which is always there.
C14_DecodedIsPostProcessed ==
    /\ Len(d_out) <= Len(d_rows)
    /\ \A i \in 1..Len(d_out) :
        LET out == d_out[i]
        IN /\ NoDuplicateKeys(out)
           /\ IF d_name = "list_members"
              THEN /\ Keys(out) = (ClaimedKeys \cap schema_keys) \cup { "custom_vars" }
                   /\ \A key \in ClaimedKeys \cap schema_keys :
                          Get(out, key) = Claimed(i, key)
                   /\ LET arr == Get(out, "custom_vars").v
                      IN /\ { arr[n].var_name : n \in 1..Len(arr) }
                                = ClaimedKeys \ schema_keys
                         /\ Len(arr) = Cardinality(ClaimedKeys \ schema_keys)
                         /\ \A n \in 1..Len(arr) :
                                arr[n].var_value = Str(Claimed(i, arr[n].var_name))
              ELSE /\ Keys(out) = ClaimedKeys
                   /\ \A key \in ClaimedKeys : Get(out, key) = Claimed(i, key)

C14_Witness ==
    /\ d_name = "list_members"
    /\ d_header = << "List Id", "Color" >>
    /\ Len(d_rows) = MaxRows
    /\ Len(d_out) = Len(d_rows)
    /\ d_rows[1] # d_rows[2]

\* ------------------------------------ the signup derivation of one record
\* what a signup field of a record may be: no such key, the empty string, a
\* string that is no timestamp, the cutoff, the day after the cutoff
SignupValues == { Absent, Empty, Bad, signup_dt, signup_dt + 1 }

SignupRecords ==
    { process_row(Row(1, ls, pcd, sd, 7), 1) :
        ls \in SignupValues, pcd \in SignupValues,
                               sd \in SignupValues }

\* a record of a selected stream without record limit is about to go through
\* the record loop, after line 517 marked the bookmark of its context;
\* signup_dt was fixed when the process started
SignupInit ==
    /\ SyncIdle
    /\ today = StartDay
    /\ schema_keys = WideSchema
    /\ UsersIdle
    /\ DecodeIdle
    /\ PartitionIdle
    /\ s_pc = "ready"
    /\ s_record \in SignupRecords
    /\ s_out = [events |-> << >>,
                bookmark |-> write_starting_replication_value(NoBookmark),
                error |-> "none"]

\* a UTC midnight passes before the record is reached
SignupMidnight ==
    /\ s_pc = "ready"
    /\ today < StartDay + MaxMidnights
    /\ today' = today + 1
    /\ UNCHANGED << selected, max_records_limit, context, pc, idx, record_count,
                    partition_record_count, stream_state, events, error, status,
                    elapsed, job_completes, job, outcomes >>
    /\ UNCHANGED whole_stream_state
    /\ UNCHANGED << users, decode, signup, partition >>
    /\ UNCHANGED schema_keys

\* lines 523-577: the pass of the record loop over the record
DeriveSignup ==
    /\ s_pc = "ready"
    /\ s_out' = SyncRecord(s_out.events, s_out.bookmark, 1, s_record, 0, None,
                            TRUE, today)
    /\ s_pc' = "done"
    /\ UNCHANGED s_record
    /\ UNCHANGED << sync, users, decode, partition >>
    /\ UNCHANGED schema_keys

SignupNext ==
    \/ SignupMidnight
    \/ DeriveSignup

SignupSpec == SignupInit /\ [][SignupNext]_vars

\* the first of list_signup, profile_created_date, signup_date that is
\* present and non-empty; Absent when there is none
FirstPresent(record) ==
    IF record.list_signup \notin { Absent, Empty } THEN record.list_signup
    ELSE IF record.profile_created_date \notin { Absent, Empty }
         THEN record.profile_created_date
         ELSE IF record.signup_date \notin { Absent, Empty }
              THEN record.signup_date
              ELSE Absent

ChildSynced(out) == \E i \in 1..Len(out.events) : out.events[i].type = "CHILD"

\* C17, as stated: when the first present and non-empty signup field of a
\* record is a timestamp, it is the signup timestamp of the record, absent
\* fields being skipped like empty ones: the child sync runs exactly when
\* that timestamp is after the cutoff.
C17_AbsentSkippedLikeEmpty ==
    (s_pc = "done" /\ Parses(FirstPresent(s_record))) =>
        /\ list_signup(s_record, today) = FirstPresent(s_record)
        /\ ChildSynced(s_out) <=> FirstPresent(s_record) > signup_dt

\* C18, as stated: a record whose signup fields are all absent, or whose
\* first present and non-empty field is no timestamp, gets the cutoff as its
\* signup timestamp and starts no child sync, whenever it is processed.
C18_FallbackNeverSyncsChildren ==
    (s_pc = "done"
        /\ \/ /\ s_record.list_signup = Absent
              /\ s_record.profile_created_date = Absent
              /\ s_record.signup_date = Absent
           \/ FirstPresent(s_record) = Bad) =>
        /\ list_signup(s_record, today) = signup_dt
        /\ ~ChildSynced(s_out)

\* ------------------------------------------------- the end of one context
\* a context is a mapping of its keys; the state partition context the
\* stream's state_partitioning_keys leave of it is the context itself or the
\* context restricted to some of its keys
ContextKeys == { "list_id", "list_name" }

PartitionContexts == [ContextKeys -> Contexts]

Restricted(ctx, keys) == [k \in keys |-> ctx[k]]

\* lines 515-517: a context is started; its bookmark may hold a value of an
\* earlier run
PartitionInit ==
    /\ SyncIdle
    /\ today = StartDay
    /\ schema_keys = WideSchema
    /\ UsersIdle
    /\ DecodeIdle
    /\ SignupIdle
    /\ p_pc = "records"
    /\ p_context \in PartitionContexts
    /\ p_state_partition_context \in { Restricted(p_context, keys) : keys \in SUBSET ContextKeys }
    /\ \E v \in { None } \cup 1..MaxRows :
           p_bookmark = write_starting_replication_value(
                            [replication_key_value |-> v, starting |-> FALSE])

\* lines 562-563: a record advances the bookmark
PartitionRecord ==
    /\ p_pc = "records"
    /\ \E rk \in 1..(MaxRows + 1) :
         /\ ~increment_stream_state(p_bookmark, rk).raised
         /\ rk # p_bookmark.replication_key_value
         /\ p_bookmark' = increment_stream_state(p_bookmark, rk).bookmark
    /\ UNCHANGED << p_pc, p_context, p_state_partition_context >>
    /\ UNCHANGED << sync, users, decode, signup >>
    /\ UNCHANGED schema_keys

\* lines 578-580: the records are exhausted
PartitionEnd ==
    /\ p_pc = "records"
    /\ p_bookmark' = end_of_context(p_bookmark, p_context, p_state_partition_context)
    /\ p_pc' = "done"
    /\ UNCHANGED << p_context, p_state_partition_context >>
    /\ UNCHANGED << sync, users, decode, signup >>
    /\ UNCHANGED schema_keys

PartitionNext ==
    \/ PartitionRecord
    \/ PartitionEnd

PartitionSpec == PartitionInit /\ [][PartitionNext]_vars

\* C20: the step that ends a context clears the progress marker of the
\* context's bookmark exactly when the context equals its state partition
\* context, and changes nothing else; for a context that is a sub-slice the
\* bookmark is left as it was.
C20_FinalizedIffFullContext ==
    [][(p_pc = "records" /\ p_pc' = "done") =>
           /\ p_bookmark.starting
           /\ p_bookmark'.replication_key_value = p_bookmark.replication_key_value
           /\ ~p_bookmark'.starting <=> p_context = p_state_partition_context
           /\ p_context # p_state_partition_context => p_bookmark' = p_bookmark]_vars

C20_Witness ==
    /\ p_pc = "done"
    /\ p_context # p_state_partition_context
    /\ p_state_partition_context = Restricted(p_context, { "list_id" })
    /\ p_bookmark.starting
    /\ p_bookmark.replication_key_value = MaxRows

\* C21: the progress marker of the stream's own state entry is cleared by
\* _sync_records only at its end and only when no context was supplied; a
\* sync of one supplied context leaves the entry as it was, and so does a
\* sync that has not ended or was aborted.
C21_WholeStreamFinalizedIffNoContext ==
    /\ whole_stream_state.replication_key_value
           = StartingStreamState.replication_key_value
    /\ ~whole_stream_state.starting <=> (pc = "done" /\ context = None)
    /\ (pc = "done" /\ context # None) => whole_stream_state = StartingStreamState

C21_Witness ==
    /\ pc = "done"
    /\ context # None
    /\ outcomes[1] = "decoded"
    /\ whole_stream_state.starting
    /\ ~stream_state[context].starting

IsPrefix(a, b) == Len(a) <= Len(b) /\ SubSeq(b, 1, Len(a)) = a

\* C22: an invocation that ends without error has, at its end, processed
\* every context of context_list and finalized them, and its last message is
\* one STATE message, written by the step that ends it; an aborted invocation
\* writes nothing after the error; no message once written is taken back.
C22_OneFinalCheckpointLast ==
    [][/\ IsPrefix(events, events')
       /\ pc = "aborted" => events' = events
       /\ pc' = "aborted" => error' # "none"
       /\ (pc' = "done" /\ pc # "done") =>
              /\ error' = "none"
              /\ idx' = Len(context_list)
              /\ \A i \in 1..Len(context_list) :
                     /\ outcomes'[i] # "none"
                     /\ ~stream_state'[context_list[i]].starting
              /\ events' = Append(events, StateMessage(None))
              /\ events # << >> => events[Len(events)].type # "STATE"
              /\ whole_stream_state' = finalize_stream_state(whole_stream_state, context)
       /\ pc = "done" => events' = events]_vars

C22_Witness ==
    /\ pc = "done"
    /\ selected
    /\ context = None
    /\ error = "none"
    /\ Len(RecordsOf(events, 1)) = MaxRows
    /\ Len(RecordsOf(events, NumContexts)) >= 1
    /\ events[Len(events)] = StateMessage(None)
    /\ \E i \in 1..(Len(events) - 1) : events[i].type = "STATE"

\* C23: the messages of a record's child sync are written inside that
\* record's pass of the loop, before the record's own STATE and RECORD
\* messages and so before anything of the next record; no other step writes
\* a CHILD or RECORD message; the contexts are taken one at a time, in the
\* order of context_list, each after the one before it has ended.
C23_ChildSyncDepthFirst ==
    [][/\ (pc = "rows" /\ Len(job'.rows) = Len(job.rows) + 1) =>
              LET record == job'.rows[Len(job'.rows)]
                  a == Appended
              IN /\ \A i \in 1..Len(a) :
                        /\ a[i].ctx = current_context
                        /\ a[i].type \in { "CHILD", "RECORD" } => a[i].row = record
                 /\ \A i, j \in 1..Len(a) :
                        (a[i].type = "CHILD" /\ a[j].type # "CHILD") => i < j
                 /\ Cardinality({ i \in 1..Len(a) : a[i].type = "CHILD" }) <= 1
                 /\ Cardinality({ i \in 1..Len(a) : a[i].type = "RECORD" }) <= 1
                 /\ (list_signup(record, today) > signup_dt
                        /\ \E i \in 1..Len(a) : a[i].type = "RECORD") =>
                        a[1].type = "CHILD"
       /\ Len(job'.rows) <= Len(job.rows) =>
              \A i \in 1..Len(Appended) : Appended[i].type = "STATE"
       /\ idx' \in { idx, idx + 1 }
       /\ idx' = idx + 1 => (pc = "loop" /\ pc' = "submit")
       /\ \A i \in 1..Len(Appended) :
              \/ Appended[i] = StateMessage(None)
              \/ idx' = idx /\ idx >= 1 /\ Appended[i].ctx = context_list[idx]]_vars

C23_Witness ==
    /\ selected
    /\ idx = 2
    /\ Len(job.rows) = 2
    /\ Len(ChildSyncsOf(events, 1)) >= 1
    /\ Len(ChildSyncsOf(events, 2)) = 2
    /\ Len(RecordsOf(events, 2)) = 2
    /\ error = "none"

\* C24: a context skipped after MaxRetryError has the bookmark value it
\* started with and its progress marker cleared, which is the bookmark of a
\* context whose export was decoded and had no rows: the state tells the two
\* apart in nothing.
C24_SkippedLooksLikeEmpty ==
    LET ended == finalize_state_progress_markers(
                     write_starting_replication_value(NoBookmark))
    IN /\ \A i \in 1..Len(context_list) :
              outcomes[i] = "skipped" => stream_state[context_list[i]] = ended
       /\ (InContext /\ outcomes[idx] = "decoded" /\ job.nrows = 0) =>
              stream_state[current_context] = ended

C24_Witness ==
    /\ pc = "done"
    /\ context = None
    /\ outcomes[1] = "skipped"
    /\ outcomes[2] = "decoded"
    /\ job.nrows = 0
    /\ job.fetches = 1
    /\ stream_state[1] = stream_state[2]
    /\ ~stream_state[1].starting

\* C25: a stream that is not selected writes no RECORD message and no STATE
\* message but the final one, and no bookmark gets a value; yet every row the
\* decode yields is read and counted, the record limit aborts it, a row whose
\* list_signup is after the cutoff has its child sync, and the invocation
\* that ends without error ends with the final STATE message.
C25_UnselectedStillSyncsChildren ==
    ~selected =>
        /\ \A i \in 1..Len(events) :
               /\ events[i].type # "RECORD"
               /\ events[i].type = "STATE" => (pc = "done" /\ i = Len(events))
        /\ \A c \in Contexts : stream_state[c].replication_key_value = None
        /\ pc # "aborted" => partition_record_count = Len(job.rows)
        /\ record_count >= partition_record_count
        /\ (InContext /\ pc = "loop" /\ outcomes[idx] = "decoded") =>
               Len(job.rows) = process_job_csv(job).yields
        /\ max_records_limit # None => record_count <= max_records_limit + 1
        /\ error = "MaxRecordsLimitException" => record_count > max_records_limit
        /\ InContext =>
               Len(ChildSyncsOf(events, current_context))
                   >= Cardinality({ n \in 1..Len(job.rows) :
                          /\ job.rows[n].list_signup > signup_dt
                          /\ job.rows[n].profile_id # Absent })
        /\ pc = "done" => events[Len(events)] = StateMessage(None)

C25_Witness ==
    /\ ~selected
    /\ pc = "aborted"
    /\ error = "MaxRecordsLimitException"
    /\ idx = 2
    /\ Len(ChildSyncsOf(events, 1)) = 2
    /\ Len(ChildSyncsOf(events, 2)) = 1

====
